---- MODULE Spec2Model ----
(***************************************************************************)
(* A model of cudet/nodes.py: the configuration resolver Node.apply_conf,  *)
(* the once-assignment pass NodeManager._conf_assign_once, the node filter *)
(* NodeFilter and the fan-out NodeManager.run_commands / Node.exec_cmd.    *)
(*                                                                         *)
(* Python values are modelled as follows.  A dict whose iteration order    *)
(* the code depends on (a configuration document, the section of a once    *)
(* rule) is a sequence of <<key, value>> pairs in iteration order.  A dict *)
(* that is only looked up (the branches of a by_<attr> section) is a       *)
(* function.  A Node is a function from attribute names to values, so      *)
(* hasattr / getattr / setattr are DOMAIN membership, application and      *)
(* update.  Strings are strings; string operations the model checker       *)
(* cannot compute (startswith, slicing, basename, ordering) are tables     *)
(* over the strings that occur.                                            *)
(***************************************************************************)
EXTENDS Integers, Sequences, FiniteSets, TLC

VARIABLES
    conf,          \* NodeManager.conf: the shared configuration document
    nodes,         \* NodeManager.nodes: ip -> Node
    nodes_order,   \* iteration order of the dict NodeManager.nodes (its keys)
    pc,            \* position in the program being modelled
    ops,           \* number of method calls made after construction
    last_op,       \* history: the last operation and the node it was called on
    prev_nodes,    \* history: NodeManager.nodes before the last operation
    resolved,      \* history: ips whose state was left by apply_conf(conf, clean=True)
    pass_grants,   \* history: <<rule, value, ip>> applied by the last once pass
    granted,       \* history: <<rule, value, ip>> applied by any once pass
    nodes_json,    \* NodeManager.nodes_json: the raw inventory, a list of records
    filters,       \* NodeFilter.filters: the filter specification
    filtered_nodes,\* _nodes_init: the list filter_nodes returned
    raised,        \* the exception the constructor raised, "" when none
    lock,          \* the process-wide run lock: 0 when free, else the caller holding it
    cpc,           \* position of each caller of run_commands
    fake,          \* the fake argument of each caller's call
    run_items,     \* run_items of each call: the keys of its units, in order
    unit_done,     \* the units of each call that run_batch has finished
    result,        \* result of each call's run_batch: key -> <<mapcmds, mapscr>>
    fs,            \* the filesystem: [dirs, files], files a map from path to content
    logger,        \* the warning and error records logged
    calls          \* history: per call and node, the remote calls exec_cmd made

conf_vars == <<conf, nodes, nodes_order, pc, ops, last_op, prev_nodes,
               resolved, pass_grants, granted>>

filter_vars == <<nodes_json, filters, filtered_nodes, raised>>

run_vars == <<lock, cpc, fake, run_items, unit_done, result, fs, logger, calls>>

vars == <<conf_vars, filter_vars, run_vars>>

(***************************************************************************)
(* Bounds of the model.                                                    *)
(***************************************************************************)
MaxNodes == 2      \* inventory records of a fleet
MaxOps == 1        \* method calls made after the constructor returns
MaxCallers == 2    \* calls of run_commands made, possibly at the same time

Callers == 1..MaxCallers

\* No call of run_commands has been made
RunIdle ==
    /\ lock = 0
    /\ cpc = [c \in Callers |-> "idle"]
    /\ fake = [c \in Callers |-> TRUE]
    /\ run_items = [c \in Callers |-> <<>>]
    /\ unit_done = [c \in Callers |-> {}]
    /\ result = [c \in Callers |-> <<>>]
    /\ fs = [dirs |-> {}, files |-> <<>>]
    /\ logger = {}
    /\ calls = [c \in Callers |-> <<>>]

(***************************************************************************)
(* Node class attributes (nodes.py:36-49).                                 *)
(***************************************************************************)
ckey == "cmds"
skey == "scripts"
fkey == "files"
flkey == "filelists"
lkey == "logs"
pkey == "put"
conf_appendable == {lkey, ckey, skey, fkey, flkey, pkey}
conf_keep_default == {skey, ckey, fkey, flkey}
conf_once_prefix == "once_"
conf_match_prefix == "by_"
conf_default_key == "__default"
conf_priority_section == "by_id"

(***************************************************************************)
(* String operations as tables over the keys that occur in documents.      *)
(***************************************************************************)
\* k[len('by_'):] for the keys k with k.startswith('by_')
MatchKeyAttr == [by_roles |-> "roles", by_status |-> "status",
                 by_zone |-> "zone", by_id |-> "id"]

\* k[len('once_by_'):] for the keys k with k.startswith('once_')
OnceKeyAttr == [once_by_roles |-> "roles", once_by_status |-> "status"]

startswith(k, p) ==
    IF p = conf_match_prefix THEN k \in DOMAIN MatchKeyAttr
    ELSE IF p = conf_once_prefix THEN k \in DOMAIN OnceKeyAttr
    ELSE FALSE

\* Attributes whose value is a Python list (type(value) == list).
ListValued == conf_appendable \cup {"roles"}

\* utils.w_list: a list is returned as it is, any other value is wrapped.
w_list(value, is_list) == IF is_list THEN value ELSE <<value>>

(***************************************************************************)
(* Dicts in iteration order.                                               *)
(***************************************************************************)
Keys(el) == {el[i][1] : i \in 1..Len(el)}
Has(el, k) == k \in Keys(el)
Get(el, k) == el[CHOOSE i \in 1..Len(el) : el[i][1] = k][2]

hasattr(self, a) == a \in DOMAIN self
getattr(self, a) == self[a]
setattr(self, a, v) ==
    IF a \in DOMAIN self THEN [self EXCEPT ![a] = v] ELSE (a :> v) @@ self

(***************************************************************************)
(* Node.apply_conf (nodes.py:81-138).  The resolver state st is            *)
(* [self |-> the node, o |-> the keys of the dict `overridden`,             *)
(*  h |-> history: the <<k, list>> contributions apply has made so far].   *)
(***************************************************************************)
apply(st, k, v, default) ==
    IF k \in conf_appendable
    THEN LET replace == \/ default
                        \/ (k \notin conf_keep_default /\ k \notin st.o)
                        \/ ~hasattr(st.self, k)
             self1 == IF replace
                      THEN setattr(st.self, k, w_list(v, TRUE))
                      ELSE setattr(st.self, k,
                                   getattr(st.self, k) \o w_list(v, TRUE))
         IN  [self |-> self1, o |-> IF default THEN st.o ELSE st.o \cup {k},
              h |-> Append(st.h, <<k, w_list(v, TRUE)>>)]
    ELSE [self |-> setattr(st.self, k, v), o |-> st.o, h |-> st.h]

\* for k in d_conf: apply(k, d_conf[k], ..., default), from position i on
RECURSIVE apply_keys(_, _, _, _)
apply_keys(st, d_conf, i, default) ==
    IF i > Len(d_conf) THEN st
    ELSE apply_keys(apply(st, d_conf[i][1], d_conf[i][2], default),
                    d_conf, i + 1, default)

\* [k for k in el if k != p_s and not k.startswith(p)]
normal_keys(el) ==
    SelectSeq(el, LAMBDA e : /\ e[1] # conf_priority_section
                             /\ ~startswith(e[1], conf_match_prefix))

\* [k for k in el if k != p_s and k.startswith(p)]
match_keys(el) ==
    SelectSeq(el, LAMBDA e : /\ e[1] # conf_priority_section
                             /\ startswith(e[1], conf_match_prefix))

\* [k for k in p_conf if k != d]
priority_keys(p_conf) ==
    SelectSeq(p_conf, LAMBDA e : e[1] # conf_default_key)

\* The by_id section applied with apply(..., default=False): it appends
apply_priority_appending(st, sec) ==
    IF getattr(st.self, "id") \in DOMAIN sec.ids
    THEN LET st1 == IF sec.dflt # <<>>
                    THEN apply_keys(st, sec.dflt[1], 1, FALSE)
                    ELSE st
         IN  apply_keys(st1, priority_keys(sec.ids[getattr(st.self, "id")]),
                        1, FALSE)
    ELSE st

\* The by_id section: [ids |-> host id -> sub-document,
\*                     dflt |-> <<d_conf>> when '__default' is in it, else <<>>]
apply_priority(st, sec) ==
    IF getattr(st.self, "id") \in DOMAIN sec.ids
    THEN LET p_conf == sec.ids[getattr(st.self, "id")]
             st1 == IF sec.dflt # <<>>
                    THEN apply_keys(st, sec.dflt[1], 1, FALSE)
                    ELSE st
         IN  apply_keys(st1, priority_keys(p_conf), 1, TRUE)
    ELSE st

\* The attribute taken as one scalar: only its first value is matched
match_attr_first(self, attr_name) ==
    <<w_list(getattr(self, attr_name), attr_name \in ListValued)[1]>>

\* attr = utils.w_list(getattr(self, attr_name))
match_attr(self, attr_name) ==
    w_list(getattr(self, attr_name), attr_name \in ListValued)

RECURSIVE r_apply(_, _, _)
RECURSIVE match_values(_, _, _, _, _)
RECURSIVE match_sections(_, _, _, _)

\* for v in attr: if v in el[k]: ..., from position j of attr on
match_values(st, el, k, attr, j) ==
    IF j > Len(attr) THEN st
    ELSE LET v == attr[j] IN
         IF v \in DOMAIN Get(el, k)
         THEN LET subconf == Get(el, k)[v]
                  st1 == IF Has(el, conf_default_key)
                         THEN apply_keys(st, Get(el, conf_default_key), 1, FALSE)
                         ELSE st
              IN  match_values(r_apply(st1, subconf, FALSE), el, k, attr, j + 1)
         ELSE match_values(st, el, k, attr, j + 1)

\* for k in [match keys of el]: ..., from position i of ks on
match_sections(st, el, ks, i) ==
    IF i > Len(ks) THEN st
    ELSE LET k == ks[i][1]
             attr_name == MatchKeyAttr[k]
         IN  IF hasattr(st.self, attr_name)
             THEN match_sections(
                      match_values(st, el, k,
                                   match_attr(st.self, attr_name), 1),
                      el, ks, i + 1)
             ELSE match_sections(st, el, ks, i + 1)

\* r_apply(el, ...); top_clean is the value of `el == conf and clean`
r_apply(st, el, top_clean) ==
    LET st1 == apply_keys(st, normal_keys(el), 1, top_clean)
        st2 == match_sections(st1, el, match_keys(el), 1)
    IN  IF Has(el, conf_priority_section)
        THEN apply_priority(st2, Get(el, conf_priority_section))
        ELSE st2

\* apply_conf without the clearing of the keep_default lists
clean_lists_skipped(self) == self

\* for f in set(c_a).intersection(k_d): setattr(self, f, [])
clean_lists(self) ==
    [a \in DOMAIN self |->
        IF a \in conf_appendable \cap conf_keep_default THEN <<>> ELSE self[a]]

\* The resolver state apply_conf ends in
resolve(self, document, clean) ==
    LET self0 == IF clean THEN clean_lists(self) ELSE self
    IN  r_apply([self |-> self0, o |-> {}, h |-> <<>>], document, clean)

apply_conf(self, document, clean) == resolve(self, document, clean).self

(***************************************************************************)
(* Node.__init__ (nodes.py:53-79): the attributes the model follows.       *)
(***************************************************************************)
Node(id, cluster, roles, online, status, ip, document) ==
    apply_conf([id |-> id, cluster |-> cluster, roles |-> roles,
                online |-> online, status |-> status, ip |-> ip,
                files |-> <<>>, filelists |-> <<>>, cmds |-> <<>>,
                scripts |-> <<>>, put |-> <<>>,
                mapcmds |-> <<>>, mapscr |-> <<>>,
                outputs_timestamp |-> FALSE],
               document, TRUE)

(***************************************************************************)
(* NodeManager._conf_assign_once (nodes.py:535-553).  The value of         *)
(* assigned[ak] is <<>> for None and <<id>> for a node id.  The state a of *)
(* the pass is [nodes, assigned, grants]; grants records every             *)
(* node.apply_conf(once_conf, clean=False) the pass makes.                 *)
(***************************************************************************)
\* Python truth of assigned[ak]: None and 0 are false
truthy(assigned_ak) == assigned_ak # <<>> /\ assigned_ak[1] # 0

\* for v in attr: if v == ak
attr_has(node, attr_name, ak) ==
    LET attr == match_attr(node, attr_name)
    IN  \E j \in 1..Len(attr) : attr[j] = ak

\* The body of `for node in self.nodes.values()` for one node
assign_node(a, k, ak, once_conf, ip) ==
    LET node == a.nodes[ip]
        attr_name == OnceKeyAttr[k]
    IN  IF /\ hasattr(node, attr_name)
           /\ ~truthy(a.assigned)
           /\ attr_has(node, attr_name, ak)
        THEN LET node1 == apply_conf(node, once_conf, FALSE)
             IN  [nodes |-> [a.nodes EXCEPT ![ip] = node1],
                  assigned |-> <<getattr(node1, "id")>>,
                  grants |-> a.grants \cup {<<k, ak, ip>>}]
        ELSE a

\* for node in self.nodes.values(): ...; if assigned[ak]: break
RECURSIVE scan_nodes(_, _, _, _, _, _)
scan_nodes(a, k, ak, once_conf, order, n) ==
    IF n > Len(order) THEN a
    ELSE LET a1 == assign_node(a, k, ak, once_conf, order[n])
         IN  IF truthy(a1.assigned) THEN a1
             ELSE scan_nodes(a1, k, ak, once_conf, order, n + 1)

\* for ak in assigned: ..., over the candidate values of rule k
RECURSIVE scan_values(_, _, _, _, _)
scan_values(a, k, section, order, i) ==
    IF i > Len(section) THEN a
    ELSE scan_values(
             scan_nodes([a EXCEPT !.assigned = <<>>], k, section[i][1],
                        section[i][2], order, 1),
             k, section, order, i + 1)

\* [k for k in self.conf if k.startswith(once)]
once_keys(document) ==
    SelectSeq(document, LAMBDA e : startswith(e[1], conf_once_prefix))

RECURSIVE scan_rules(_, _, _, _)
scan_rules(a, ks, order, i) ==
    IF i > Len(ks) THEN a
    ELSE scan_rules(scan_values(a, ks[i][1], ks[i][2], order, 1),
                    ks, order, i + 1)

conf_assign_once(document, registry, order) ==
    scan_rules([nodes |-> registry, assigned |-> <<>>, grants |-> {}],
               once_keys(document), order, 1)

\* nodes_reapply_conf calling node.apply_conf(self.conf, clean=False)
nodes_reapply_conf_accumulating(document, registry) ==
    [ip \in DOMAIN registry |-> apply_conf(registry[ip], document, FALSE)]

\* NodeManager.nodes_reapply_conf (nodes.py:555-557)
nodes_reapply_conf(document, registry) ==
    [ip \in DOMAIN registry |-> apply_conf(registry[ip], document, TRUE)]

(***************************************************************************)
(* The documents and fleets the resolver is checked on.                    *)
(***************************************************************************)
GenericParts ==
    { <<>>,
      << <<"scripts", <<"T">>>>, <<"put", <<"P">>>> >>,
      << <<"cmds", <<"A">>>>, <<"put", <<"P">>>>, <<"logs", <<"L">>>> >> }

DefaultParts ==
    { <<>>, << <<"__default", << <<"cmds", <<"F">>>> >> >> >> }

RoleParts ==
    { <<>>,
      << <<"by_roles", [compute |-> << <<"cmds", <<"B">>>> >>] >> >>,
      << <<"by_roles",
           [controller |-> << <<"cmds", <<"G">>>>, <<"put", <<"Q">>>>,
                              <<"by_status",
                                [ready |-> << <<"scripts", <<"S">>>> >>] >> >>,
            compute |-> << <<"cmds", <<"B">>>>, <<"files", <<"f">>>> >>] >> >> }

SecondParts ==
    { <<>>,
      << <<"by_status", [ready |-> << <<"status", "error">> >>,
                         error |-> << <<"scripts", <<"E">>>> >>] >> >>,
      << <<"by_status",
           ("__default" :> << <<"cmds", <<"H">>>> >>)
               @@ [ready |-> << <<"files", <<"m">>>> >>] >> >>,
      << <<"by_zone", [z |-> << <<"cmds", <<"Z">>>> >>] >> >> }

IdParts ==
    { <<>>,
      << <<"by_id", [ids |-> (1 :> << <<"cmds", <<"C">>>> >>),
                     dflt |-> << << <<"cmds", <<"D">>>>,
                                    <<"filelists", <<"l">>>> >> >>] >> >> }

OncePayload == << <<"cmds", <<"O">>>>, <<"put", <<"R">>>> >>

OnceParts ==
    { << <<"once_by_roles", << <<"controller", OncePayload>> >> >> >>,
      << <<"once_by_status", << <<"ready", OncePayload>>,
                                <<"error", OncePayload>> >> >> >> }

Docs ==
    { g \o d \o r \o s \o i :
        g \in GenericParts, d \in DefaultParts, r \in RoleParts,
        s \in SecondParts, i \in IdParts }
    \cup
    { g \o r \o o : g \in GenericParts, r \in RoleParts, o \in OnceParts }

RoleSets == { <<"controller">>, <<"compute">>, <<"controller", "compute">> }

IpTable == <<"10.0.0.1", "10.0.0.2", "10.0.0.3", "10.0.0.4">>
fuel_ip == "10.20.0.2"

\* NodeManager._fuel_node_init (nodes.py:329-348)
fuel_node(document) ==
    Node(0, 0, <<"fuel">>, TRUE, "ready", fuel_ip, document)

\* A fleet: MaxNodes inventory nodes with ids 1..MaxNodes and, when master is
\* set, the fuel node, which the dict self.nodes yields after pos of them.
Registry(document, roles, master) ==
    [ip \in {IpTable[i] : i \in 1..MaxNodes}
            \cup (IF master THEN {fuel_ip} ELSE {}) |->
        IF ip = fuel_ip THEN fuel_node(document)
        ELSE LET i == CHOOSE j \in 1..MaxNodes : IpTable[j] = ip
             IN  Node(i, 1, roles[i], TRUE, "ready", ip, document)]

Order(master, pos) ==
    LET inv == [i \in 1..MaxNodes |-> IpTable[i]]
    IN  IF master
        THEN SubSeq(inv, 1, pos) \o <<fuel_ip>> \o SubSeq(inv, pos + 1, MaxNodes)
        ELSE inv

NoOp == [name |-> "init", ip |-> "", clean |-> TRUE, was_resolved |-> {}]

Init ==
    /\ conf \in Docs
    /\ \E roles \in [1..MaxNodes -> RoleSets], master \in BOOLEAN,
          pos \in {0, MaxNodes} :
          /\ master \/ pos = 0
          /\ nodes = Registry(conf, roles, master)
          /\ nodes_order = Order(master, pos)
    /\ pc = "reapply"
    /\ ops = 0
    /\ last_op = NoOp
    /\ prev_nodes = nodes
    /\ resolved = DOMAIN nodes
    /\ pass_grants = {}
    /\ granted = {}
    /\ nodes_json = <<>>
    /\ filters = <<>>
    /\ filtered_nodes = <<>>
    /\ raised = ""
    /\ RunIdle

\* The constructor calls the method at position `at`; afterwards any method
\* may be called, MaxOps times.
Step(at, next) ==
    \/ /\ pc = at
       /\ pc' = next
       /\ ops' = ops
    \/ /\ pc = "ready"
       /\ ops < MaxOps
       /\ pc' = pc
       /\ ops' = ops + 1

NodesReapplyConf ==
    /\ Step("reapply", "once")
    /\ nodes' = nodes_reapply_conf(conf, nodes)
    /\ last_op' = [name |-> "nodes_reapply_conf", ip |-> "", clean |-> TRUE,
                   was_resolved |-> resolved]
    /\ prev_nodes' = nodes
    /\ resolved' = DOMAIN nodes
    /\ UNCHANGED <<conf, nodes_order, pass_grants, granted>>
    /\ UNCHANGED filter_vars
    /\ UNCHANGED run_vars

ConfAssignOnce ==
    /\ Step("once", "ready")
    /\ LET a == conf_assign_once(conf, nodes, nodes_order)
       IN  /\ nodes' = a.nodes
           /\ pass_grants' = a.grants
           /\ granted' = granted \cup a.grants
           /\ resolved' = resolved \ {g[3] : g \in a.grants}
    /\ last_op' = [name |-> "_conf_assign_once", ip |-> "", clean |-> FALSE,
                   was_resolved |-> resolved]
    /\ prev_nodes' = nodes
    /\ UNCHANGED <<conf, nodes_order>>
    /\ UNCHANGED filter_vars
    /\ UNCHANGED run_vars

\* node.apply_conf(conf), clean defaulting to True
ApplyConf(ip) ==
    /\ pc = "ready"
    /\ ops < MaxOps
    /\ ops' = ops + 1
    /\ nodes' = [nodes EXCEPT ![ip] = apply_conf(nodes[ip], conf, TRUE)]
    /\ last_op' = [name |-> "apply_conf", ip |-> ip, clean |-> TRUE,
                   was_resolved |-> resolved]
    /\ prev_nodes' = nodes
    /\ resolved' = resolved \cup {ip}
    /\ UNCHANGED <<conf, nodes_order, pc, pass_grants, granted>>
    /\ UNCHANGED filter_vars
    /\ UNCHANGED run_vars

Next ==
    \/ NodesReapplyConf
    \/ ConfAssignOnce
    \/ \E ip \in DOMAIN nodes : ApplyConf(ip)

Spec == Init /\ [][Next]_vars

(***************************************************************************)
(* What a document contributes to and what it matches on.                  *)
(***************************************************************************)
\* The attributes a resolution of doc may set
RECURSIVE Written(_)
Written(doc) ==
    UNION { LET k == doc[i][1]
                v == doc[i][2]
            IN  IF k = conf_priority_section
                THEN (IF v.dflt # <<>> THEN Keys(v.dflt[1]) ELSE {})
                     \cup UNION {Keys(priority_keys(v.ids[h])) : h \in DOMAIN v.ids}
                ELSE IF startswith(k, conf_match_prefix)
                THEN UNION {Written(v[b]) : b \in DOMAIN v}
                ELSE IF k = conf_default_key
                THEN {k} \cup Keys(v)
                ELSE {k}
          : i \in 1..Len(doc) }

\* The attributes the match keys and the by_id section of doc test
RECURSIVE Matched(_)
Matched(doc) ==
    UNION { LET k == doc[i][1]
                v == doc[i][2]
            IN  IF k = conf_priority_section THEN {"id"}
                ELSE IF startswith(k, conf_match_prefix)
                THEN {MatchKeyAttr[k]} \cup UNION {Matched(v[b]) : b \in DOMAIN v}
                ELSE {}
          : i \in 1..Len(doc) }

Four(self) ==
    <<getattr(self, ckey), getattr(self, skey), getattr(self, fkey),
      getattr(self, flkey)>>

\* The last operation was apply_conf(conf, clean=True) on the node at ip
CleanCovers(ip) ==
    /\ last_op.clean
    /\ \/ last_op.name = "nodes_reapply_conf"
       \/ last_op.name = "apply_conf" /\ last_op.ip = ip

\* ... and it started from the state an earlier such call left
SecondResolution(ip) == CleanCovers(ip) /\ ip \in last_op.was_resolved

(***************************************************************************)
(* C1 as stated: a second apply_conf(conf, clean=True), started from the   *)
(* state the first left, leaves cmds, scripts, files and filelists as the  *)
(* first left them, for every document and host.                           *)
(***************************************************************************)
C1_IdempotentAnyDocument ==
    \A ip \in DOMAIN nodes :
        SecondResolution(ip) => Four(nodes[ip]) = Four(prev_nodes[ip])

(***************************************************************************)
(* C1 amended: the same, for every document that contributes to none of    *)
(* the host attributes its own match keys and by_id section test.          *)
(***************************************************************************)
C1_IdempotentStableAttributes ==
    \A ip \in DOMAIN nodes :
        (SecondResolution(ip) /\ Written(conf) \cap Matched(conf) = {})
            => Four(nodes[ip]) = Four(prev_nodes[ip])

C1_Witness ==
    \E ip \in DOMAIN nodes :
        /\ SecondResolution(ip)
        /\ Written(conf) \cap Matched(conf) = {}
        /\ Len(getattr(nodes[ip], ckey)) >= 2
        /\ getattr(nodes[ip], fkey) # <<>>

(***************************************************************************)
(* C4: after apply_conf(conf, clean=True), a host whose id has an entry    *)
(* with commands in the top-level by_id section has exactly those commands.*)
(***************************************************************************)
PriorityCmds(ip) ==
    LET sec == Get(conf, conf_priority_section)
    IN  Get(sec.ids[getattr(nodes[ip], "id")], ckey)

HasPriorityCmds(ip) ==
    /\ Has(conf, conf_priority_section)
    /\ getattr(nodes[ip], "id") \in DOMAIN Get(conf, conf_priority_section).ids
    /\ Has(Get(conf, conf_priority_section).ids[getattr(nodes[ip], "id")], ckey)

C4_PriorityOverrides ==
    \A ip \in DOMAIN nodes :
        (ip \in resolved /\ HasPriorityCmds(ip))
            => getattr(nodes[ip], ckey) = PriorityCmds(ip)

\* the same document also contributes generic, role-matched and by_id
\* default commands to the host
C4_Witness ==
    \E ip \in DOMAIN nodes :
        /\ CleanCovers(ip)
        /\ HasPriorityCmds(ip)
        /\ Has(conf, ckey)
        /\ Has(conf, conf_default_key)
        /\ Has(conf, "by_roles")
        /\ \E j \in 1..Len(getattr(nodes[ip], "roles")) :
              /\ getattr(nodes[ip], "roles")[j] \in DOMAIN Get(conf, "by_roles")
              /\ Has(Get(conf, "by_roles")[getattr(nodes[ip], "roles")[j]], ckey)
        /\ Get(conf, conf_priority_section).dflt # <<>>
        /\ Has(Get(conf, conf_priority_section).dflt[1], ckey)

(***************************************************************************)
(* C5: when the only command contribution of conf is one branch            *)
(* by_<attr>: {value: {cmds: [B]}}, apply_conf(conf, clean=True) leaves B  *)
(* in the cmds of exactly the hosts whose <attr> contained the value, and  *)
(* leaves every other host the action lists it gets without that key.      *)
(***************************************************************************)
Remove(doc, k) == SelectSeq(doc, LAMBDA e : e[1] # k)

Range(seq) == {seq[j] : j \in 1..Len(seq)}

\* The branches <<by_<attr>, value>> of doc that hold its only commands;
\* the reserved key '__default' is not a value
OnlyCmdSites(doc) ==
    { site \in UNION { {<<doc[i][1], b>> :
                           b \in DOMAIN doc[i][2] \ {conf_default_key}}
                       : i \in {j \in 1..Len(doc) :
                                   /\ doc[j][1] # conf_priority_section
                                   /\ startswith(doc[j][1], conf_match_prefix)} } :
        LET sec == Get(doc, site[1])
        IN  /\ Has(sec[site[2]], ckey)
            /\ ckey \notin Written(Remove(sec[site[2]], ckey))
            /\ \A b \in DOMAIN sec \ {site[2]} : ckey \notin Written(sec[b])
            /\ ckey \notin Written(Remove(doc, site[1]))
            /\ once_keys(doc) = <<>> }

\* The host's value set for the attribute of a match key contains value
AttrContains(self, k, value) ==
    /\ hasattr(self, MatchKeyAttr[k])
    /\ value \in Range(w_list(getattr(self, MatchKeyAttr[k]),
                              MatchKeyAttr[k] \in ListValued))

ActionLists(self) ==
    [a \in conf_appendable \cap DOMAIN self |-> getattr(self, a)]

C5_MatchIsSelective ==
    \A ip \in DOMAIN nodes : \A site \in OnlyCmdSites(conf) :
        CleanCovers(ip) =>
            LET B == Range(Get(Get(conf, site[1])[site[2]], ckey))
                matches == AttrContains(prev_nodes[ip], site[1], site[2])
            IN  /\ \A c \in B : (c \in Range(getattr(nodes[ip], ckey))) <=> matches
                /\ ~matches =>
                     ActionLists(nodes[ip]) =
                       ActionLists(apply_conf(prev_nodes[ip],
                                              Remove(conf, site[1]), TRUE))

\* one host gained B, another did not and still has its other action lists
C5_Witness ==
    \E site \in OnlyCmdSites(conf) : \E ip1, ip2 \in DOMAIN nodes :
        /\ CleanCovers(ip1)
        /\ CleanCovers(ip2)
        /\ AttrContains(prev_nodes[ip1], site[1], site[2])
        /\ Range(Get(Get(conf, site[1])[site[2]], ckey))
               \subseteq Range(getattr(nodes[ip1], ckey))
        /\ ~AttrContains(prev_nodes[ip2], site[1], site[2])
        /\ getattr(nodes[ip2], ckey) = <<>>
        /\ getattr(nodes[ip2], skey) # <<>>
        /\ getattr(nodes[ip2], "status") = "error"

(***************************************************************************)
(* C2: one pass of _conf_assign_once applies the payload of every once     *)
(* rule and candidate value to at most one node of the registry, and to    *)
(* exactly one when some node's attribute contains the value.              *)
(***************************************************************************)
\* The <<rule, candidate value>> pairs of a document
OnceValues(doc) ==
    UNION { {<<once_keys(doc)[i][1], once_keys(doc)[i][2][j][1]>>
                : j \in 1..Len(once_keys(doc)[i][2])}
            : i \in 1..Len(once_keys(doc)) }

Receivers(grants, rule) == {g[3] : g \in {h \in grants : <<h[1], h[2]>> = rule}}

OnceCandidates(registry, rule) ==
    {ip \in DOMAIN registry :
        /\ hasattr(registry[ip], OnceKeyAttr[rule[1]])
        /\ attr_has(registry[ip], OnceKeyAttr[rule[1]], rule[2])}

C2_SingleAssignment ==
    last_op.name = "_conf_assign_once" =>
        \A rule \in OnceValues(conf) :
            /\ Cardinality(Receivers(pass_grants, rule)) <= 1
            /\ OnceCandidates(prev_nodes, rule) # {}
                   => Cardinality(Receivers(pass_grants, rule)) = 1

(***************************************************************************)
(* C3: over any number of passes of _conf_assign_once, the nodes that have *)
(* ever received the payload of a once rule's candidate value are at most  *)
(* one.                                                                    *)
(***************************************************************************)
C3_NeverReassigned ==
    \A rule \in OnceValues(conf) : Cardinality(Receivers(granted, rule)) <= 1

(***************************************************************************)
(* NodeFilter (nodes.py:572-624) and NodeManager._nodes_init               *)
(* (nodes.py:479-533).  An inventory record is a function from attribute   *)
(* names to values; the filter specification is a dict in iteration order. *)
(***************************************************************************)
NoneValue == "<None>"

\* dict.get(attr): None when the record has no such attribute
node_get(node, attr) == IF attr \in DOMAIN node THEN node[attr] ELSE NoneValue

\* NodeFilter.check_master: self.filters.get('check_master', False)
check_master(flt) ==
    IF Has(flt, "check_master") THEN Get(flt, "check_master") ELSE FALSE

\* NodeFilter._prepare_filter_attrs kept the attributes with an empty list
prepare_filter_attrs_keeping_empty(flt) ==
    SelectSeq(flt, LAMBDA e : e[1] \notin {"check_master", "online"})

\* NodeFilter._prepare_filter_attrs
prepare_filter_attrs(flt) ==
    SelectSeq(flt, LAMBDA e : /\ e[1] \notin {"check_master", "online"}
                              /\ Len(e[2]) > 0)

\* NodeFilter._online_filter
online_filter(nodes_info) ==
    SelectSeq(nodes_info, LAMBDA node : node_get(node, "online") = TRUE)

\* _to_set: a string or a non-iterable becomes a singleton
to_set(data, is_iterable) == IF is_iterable THEN Range(data) ELSE {data}

\* NodeFilter._do_filter
do_filter(nodes_info, attr, accepted) ==
    SelectSeq(nodes_info,
              LAMBDA node :
                  to_set(node_get(node, attr),
                         attr \in ListValued /\ attr \in DOMAIN node)
                      \cap to_set(accepted, TRUE) # {})

\* for filter_attr in filter_attrs: filtered_nodes = self._do_filter(...)
RECURSIVE do_filters(_, _, _)
do_filters(nodes_info, filter_attrs, i) ==
    IF i > Len(filter_attrs) THEN nodes_info
    ELSE do_filters(do_filter(nodes_info, filter_attrs[i][1], filter_attrs[i][2]),
                    filter_attrs, i + 1)

\* NodeFilter.filter_nodes: the list _online_filter returns is dropped
filter_nodes(nodes_info, flt) ==
    LET narrowed == do_filters(nodes_info, prepare_filter_attrs(flt), 1)
        online == online_filter(narrowed)
    IN  narrowed

\* NodeManager._check_filtration_results: the exception it raises, or "".
\* Its last branch compares an int with a list, which Python 2 evaluates to
\* False; the branches that do not raise only log.
check_filtration_results(all_nodes, filtered) ==
    IF Len(all_nodes) > 0 /\ Len(filtered) = 0 THEN "AllNodesFiltered" ELSE ""

\* The body of the loop of _nodes_init for one record; reg is
\* [nodes |-> self.nodes, order |-> its keys in insertion order]
build_node(reg, node_data, document) ==
    LET node_roles == node_get(node_data, "roles")
        roles == IF node_roles = NoneValue \/ node_roles = <<>>
                 THEN <<"None">> ELSE node_roles
        cluster_id == IF node_data["cluster"] # 0
                      THEN node_data["cluster"] ELSE NoneValue
        node == Node(node_data["id"], cluster_id, roles, node_data["online"],
                     node_data["status"], node_data["ip"], document)
        ip == getattr(node, "ip")
    IN  [nodes |-> (ip :> node) @@ reg.nodes,
         order |-> IF ip \in DOMAIN reg.nodes THEN reg.order
                   ELSE Append(reg.order, ip)]

RECURSIVE build_nodes(_, _, _, _)
build_nodes(reg, records, document, i) ==
    IF i > Len(records) THEN reg
    ELSE build_nodes(build_node(reg, records[i], document),
                     records, document, i + 1)

(***************************************************************************)
(* The inventories and filter specifications the constructor is checked on.*)
(***************************************************************************)
Statuses == {"ready", "error"}

\* The address of record i of n: the inventory may report the address of
\* its first record for its last one as well
RecordIp(i, n, shared) == IF shared /\ i = n THEN IpTable[1] ELSE IpTable[i]

Inventories ==
    UNION { { [i \in 1..n |->
                 [id |-> i, cluster |-> 1, roles |-> r[i], status |-> st[i],
                  online |-> on[i], ip |-> RecordIp(i, n, shared)]]
              : r \in [1..n -> RoleSets], st \in [1..n -> Statuses],
                on \in [1..n -> BOOLEAN], shared \in BOOLEAN }
            : n \in 0..MaxNodes }

MasterFilters == { <<>>, << <<"check_master", TRUE>> >> }

RoleFilters ==
    { <<>>,
      << <<"roles", <<>>>> >>,
      << <<"roles", <<"compute">>>> >>,
      << <<"roles", <<"compute", "cinder">>>> >>,
      << <<"roles", <<"nonexistent-role">>>> >> }

StatusFilters == { <<>>, << <<"status", <<"ready">>>> >> }

FilterSpecs ==
    { m \o r \o s \o << <<"online", TRUE>> >> :
        m \in MasterFilters, r \in RoleFilters, s \in StatusFilters }

InventoryDoc == << <<"cmds", <<"A">>>> >>

InitFilter ==
    /\ nodes_json \in Inventories
    /\ filters \in FilterSpecs
    /\ filtered_nodes = <<>>
    /\ raised = ""
    /\ RunIdle
    /\ conf = InventoryDoc
    /\ nodes = <<>>
    /\ nodes_order = <<>>
    /\ pc = "fuel_node_init"
    /\ ops = 0
    /\ last_op = NoOp
    /\ prev_nodes = <<>>
    /\ resolved = {}
    /\ pass_grants = {}
    /\ granted = {}

\* NodeManager.__init__ (nodes.py:268-269)
FuelNodeInit ==
    /\ pc = "fuel_node_init"
    /\ pc' = "nodes_init"
    /\ IF check_master(filters)
       THEN /\ nodes' = (fuel_ip :> fuel_node(conf))
            /\ nodes_order' = <<fuel_ip>>
       ELSE UNCHANGED <<nodes, nodes_order>>
    /\ UNCHANGED <<conf, ops, last_op, prev_nodes, resolved, pass_grants,
                   granted>>
    /\ UNCHANGED filter_vars
    /\ UNCHANGED run_vars

\* release_map.get(cluster_id, 'n/a') in the loop of _nodes_init: the
\* exception it raises when get_slave_nodes_release returned None
release_lookup(release_map_is_none, filtered) ==
    IF release_map_is_none /\ Len(filtered) > 0 THEN "AttributeError" ELSE ""

\* NodeManager._nodes_init (nodes.py:479-516)
NodesInit ==
    /\ pc = "nodes_init"
    /\ \E release_map_is_none \in BOOLEAN :
       LET filtered == filter_nodes(nodes_json, filters)
           checked == check_filtration_results(nodes_json, filtered)
           exc == IF checked # "" THEN checked
                  ELSE release_lookup(release_map_is_none, filtered)
           reg == build_nodes([nodes |-> nodes, order |-> nodes_order],
                              filtered, conf, 1)
       IN  /\ filtered_nodes' = filtered
           /\ raised' = exc
           /\ IF exc # ""
              THEN /\ pc' = "raised"
                   /\ UNCHANGED <<nodes, nodes_order>>
              ELSE /\ pc' = "built"
                   /\ nodes' = reg.nodes
                   /\ nodes_order' = reg.order
    /\ UNCHANGED <<conf, ops, last_op, prev_nodes, resolved, pass_grants,
                   granted, nodes_json, filters>>
    /\ UNCHANGED run_vars

NextFilter == FuelNodeInit \/ NodesInit

SpecFilter == InitFilter /\ [][NextFilter]_vars

(***************************************************************************)
(* C6: filtering raises AllNodesFiltered exactly when the inventory is not *)
(* empty and no record passes; otherwise the list it returns holds exactly *)
(* the records that, for every attribute of the specification other than   *)
(* check_master and online with a non-empty accepted list, have a value    *)
(* whose set meets that list; with no such attribute every record is kept. *)
(***************************************************************************)
ValueSet(node, attr) ==
    IF attr \in DOMAIN node
    THEN (IF attr \in ListValued THEN Range(node[attr]) ELSE {node[attr]})
    ELSE {NoneValue}

Passes(node, flt) ==
    \A i \in 1..Len(flt) :
        (flt[i][1] \notin {"check_master", "online"} /\ flt[i][2] # <<>>)
            => \E v \in ValueSet(node, flt[i][1]) : v \in Range(flt[i][2])

Filtered == pc \in {"raised", "built"}

C6_FilterOutcome ==
    Filtered =>
        LET passing == SelectSeq(nodes_json, LAMBDA node : Passes(node, filters))
        IN  /\ (raised = "AllNodesFiltered")
                   <=> (Len(nodes_json) > 0 /\ passing = <<>>)
            /\ filtered_nodes = passing
            /\ (\A i \in 1..Len(filters) :
                    filters[i][1] \in {"check_master", "online"}
                        \/ filters[i][2] = <<>>)
                   => filtered_nodes = nodes_json

\* two attributes narrow the inventory: one record is dropped, one is kept
C6_Witness ==
    /\ pc = "built"
    /\ Has(filters, "roles")
    /\ Has(filters, "status")
    /\ Len(Get(filters, "roles")) = 2
    /\ Len(filtered_nodes) >= 1
    /\ Len(filtered_nodes) < Len(nodes_json)

(***************************************************************************)
(* Node.exec_cmd (nodes.py:140-206), Node.check_code (nodes.py:223-229)    *)
(* and NodeManager.run_commands (nodes.py:559-569).                        *)
(*                                                                         *)
(* A command entry, the dict {label: command}, is the sequence of its      *)
(* <<label, command>> items.  A script entry is <<name>> for the string    *)
(* name and <<name, env_vars>> for the dict {name: env_vars}.  A path is   *)
(* the tuple of its components, and the file name node-<id>-<ip>-<name>    *)
(* is the tuple of the values formatted into it.                           *)
(***************************************************************************)
outdir == "/tmp/cudet/info"
rqdir == "/usr/share/cudet/rq"
env_vars == "OPENRC=/root/openrc"

\* The order of the strings that occur as labels, commands and script names
StrRank ==
    ("a/x" :> 1) @@ ("b/x" :> 2) @@ ("df" :> 3) @@ ("uptime" :> 4)
        @@ ("x" :> 5) @@ ("y" :> 6)

\* os.path.sep in scr, os.path.basename(f)
HasSep(scr) == scr \in {"a/x", "b/x"}

Basename == ("x" :> "x") @@ ("y" :> "y") @@ ("a/x" :> "x") @@ ("b/x" :> "x")

basename(f) == Basename[f[Len(f)]]

\* Python 2 orders dicts by length, then by the item of the smallest key
cmd_rank(c) == Len(c) * 100 + StrRank[c[1][1]] * 10 + StrRank[c[1][2]]

\* Python 2 orders a dict before a str
scr_rank(e) == IF Len(e) = 2 THEN StrRank[e[1]] ELSE 100 + StrRank[e[1]]

\* sorted(seq): a stable sort; ranks[i] is the place of seq[i] in the order
sorted(seq, ranks) ==
    LET n == Len(seq)
        pos(i) == 1 + Cardinality({j \in 1..n :
                          \/ ranks[j] < ranks[i]
                          \/ ranks[j] = ranks[i] /\ j < i})
    IN  [k \in 1..n |-> seq[CHOOSE i \in 1..n : pos(i) = k]]

\* sorted(self.cmds)
sorted_cmds(cmds) == sorted(cmds, [i \in 1..Len(cmds) |-> cmd_rank(cmds[i])])

\* sorted(self.scripts)
sorted_scripts(scripts) ==
    sorted(scripts, [i \in 1..Len(scripts) |-> scr_rank(scripts[i])])

\* ddir = os.path.join(self.outdir, Node.ckey, cl, sn)
ddir(self) ==
    <<outdir, ckey, <<"cluster", getattr(self, "cluster")>>,
      <<"node", getattr(self, "id")>>>>

\* dfile = os.path.join(ddir, 'node-%s-%s-%s' % (self.id, self.ip, name)),
\* with self.outputs_timestamp_str appended when self.outputs_timestamp
outfile(self, name) ==
    LET fname == <<"node", getattr(self, "id"), getattr(self, "ip"), name>>
    IN  <<ddir(self),
          IF getattr(self, "outputs_timestamp")
          THEN Append(fname, getattr(self, "outputs_timestamp_str"))
          ELSE fname>>

\* f = scr when it holds a separator, else os.path.join(rqdir, skey, scr)
script_file(scr) == IF HasSep(scr) THEN <<scr>> ELSE <<rqdir, skey, scr>>

\* The remote calls of the loop over self.cmds, in order
RECURSIVE cmd_calls(_, _, _)
cmd_calls(self, cmds, i) ==
    IF i > Len(cmds) THEN <<>>
    ELSE [j \in 1..Len(cmds[i]) |->
             [kind |-> ckey, label |-> cmds[i][j][1],
              target |-> <<cmds[i][j][2]>>, env |-> env_vars,
              dfile |-> outfile(self, cmds[i][j][1])]]
         \o cmd_calls(self, cmds, i + 1)

\* The remote calls of the loop over scripts, in order
script_calls(self, scripts) ==
    [i \in 1..Len(scripts) |->
        LET is_dict == Len(scripts[i]) = 2
            scr == scripts[i][1]
            f == script_file(scr)
        IN  [kind |-> skey, label |-> scr, target |-> f,
             env |-> IF is_dict THEN scripts[i][2] ELSE env_vars,
             dfile |-> outfile(self, basename(f))]]

\* utils.ssh_node returns (outs, errs, code); write is how open() and
\* write() of the output file end
Outcomes ==
    { [outs |-> "ascii-text", code |-> 0, write |-> "ok"],
      [outs |-> "accented-text", code |-> 1, write |-> "ok"],
      [outs |-> "ascii-text", code |-> 0, write |-> "open_failed"],
      [outs |-> "accented-text", code |-> 2, write |-> "write_failed"] }

\* outs.encode('utf-8')
encode_utf8 ==
    ("ascii-text" :> "ascii-text") @@ ("accented-text" :> "accented-text-utf8")

LogRecord(level, self, call, code) ==
    [level |-> level, ip |-> getattr(self, "ip"), kind |-> call.kind,
     label |-> call.label, code |-> code]

\* Node.check_code raised on a code that is not accepted
check_code_raising(self, code, call, ok_codes) ==
    LET bad == code # 0 /\ (ok_codes = <<>> \/ code \notin Range(ok_codes))
    IN  [log |-> IF bad THEN {LogRecord("warning", self, call, code)} ELSE {},
         raises |-> bad]

\* Node.check_code: ok_codes is <<>> for None
check_code(self, code, call, ok_codes) ==
    LET bad == code # 0 /\ (ok_codes = <<>> \/ code \notin Range(ok_codes))
    IN  [log |-> IF bad THEN {LogRecord("warning", self, call, code)} ELSE {},
         raises |-> FALSE]

\* try: with open(dfile, 'w') as df: df.write(...)  except: logger.error(...)
write_output(fsys, self, call, outs, write) ==
    IF write = "ok"
    THEN [fs |-> [fsys EXCEPT !.files = (call.dfile :> encode_utf8[outs]) @@ @],
          log |-> {}]
    ELSE IF write = "open_failed"
    THEN [fs |-> fsys, log |-> {LogRecord("error", self, call, 0)}]
    ELSE [fs |-> [fsys EXCEPT !.files = (call.dfile :> "") @@ @],
          log |-> {LogRecord("error", self, call, 0)}]

\* utils.mdir(ddir)
mdir(fsys, dir) == [fsys EXCEPT !.dirs = @ \cup {dir}]

\* One iteration of either loop of exec_cmd
exec_call(acc, self, call, o, is_fake, ok_codes) ==
    LET mapped == [acc EXCEPT !.maps[call.kind] = (call.label :> call.dfile) @@ @]
    IN  IF is_fake THEN mapped
        ELSE LET done == [kind |-> call.kind, label |-> call.label,
                          dfile |-> call.dfile, outs |-> o.outs,
                          code |-> o.code, write |-> o.write]
                 checked == check_code(self, o.code, call, ok_codes)
                 written == write_output(acc.fs, self, call, o.outs, o.write)
             IN  IF checked.raises
                 THEN [mapped EXCEPT !.logger = @ \cup checked.log,
                                     !.calls = Append(@, done),
                                     !.raised = TRUE]
                 ELSE [mapped EXCEPT !.fs = written.fs,
                                     !.logger = @ \cup checked.log \cup written.log,
                                     !.calls = Append(@, done)]

RECURSIVE exec_calls(_, _, _, _, _, _, _)
exec_calls(acc, self, cs, outcomes, is_fake, ok_codes, i) ==
    IF i > Len(cs) \/ acc.raised THEN acc
    ELSE exec_calls(exec_call(acc, self, cs[i],
                              IF is_fake THEN <<>> ELSE outcomes[i],
                              is_fake, ok_codes),
                    self, cs, outcomes, is_fake, ok_codes, i + 1)

\* The remote calls exec_cmd makes for self, commands first
all_calls(self) ==
    cmd_calls(self, sorted_cmds(getattr(self, ckey)), 1)
        \o script_calls(self, sorted_scripts(getattr(self, skey)))

\* Node.exec_cmd: [self, out], out.maps being the pair it returns unless
\* out.raised
exec_cmd(self, is_fake, ok_codes, fsys, outcomes) ==
    LET made == IF getattr(self, ckey) # <<>> \/ getattr(self, skey) # <<>>
                THEN mdir(fsys, ddir(self)) ELSE fsys
        acc == [maps |-> [cmds |-> <<>>, scripts |-> <<>>], fs |-> made,
                logger |-> {}, calls |-> <<>>, raised |-> FALSE]
    IN  [self |-> setattr(self, ckey, sorted_cmds(getattr(self, ckey))),
         out |-> exec_calls(acc, self, all_calls(self), outcomes, is_fake,
                            ok_codes, 1)]

\* utils.run_with_lock lets a call in when no call holds the lock
run_with_lock(l) == l = 0

\* run_commands without its decorator
run_commands_undecorated(l) == TRUE

\* @utils.run_with_lock def run_commands(...)
run_commands_entry(l) == run_with_lock(l)

(***************************************************************************)
(* The fleets run_commands is checked on: MaxNodes nodes, the first a      *)
(* controller and the others computes, resolved from one document.         *)
(***************************************************************************)
Cx == << <<"x", "uptime">> >>
Cy == << <<"y", "df">> >>

ControllerOnly(d_conf) == <<"by_roles", [controller |-> d_conf]>>

RunDocs ==
    { << <<ckey, <<Cy>>>>, ControllerOnly(<< <<ckey, <<Cx>>>> >>) >>,
      << <<ckey, <<Cx>>>>, ControllerOnly(<< <<skey, << <<"x">> >>>> >>) >>,
      << <<skey, << <<"b/x">> >>>>,
         ControllerOnly(<< <<skey, << <<"a/x", "LC_ALL=C">> >>>> >>) >>,
      << <<ckey, <<Cx>>>>,
         <<"outputs_timestamp", TRUE>>,
         <<"outputs_timestamp_str", "-2016-01-01">> >> }

\* The fake argument of each call; at most one call is not a dry run
FakeArgs ==
    { f \in [Callers -> BOOLEAN] : \A c1, c2 \in Callers :
                                      (~f[c1] /\ ~f[c2]) => c1 = c2 }

RunRoles ==
    [i \in 1..MaxNodes |-> IF i = 1 THEN <<"controller">> ELSE <<"compute">>]

InitRun ==
    /\ conf \in RunDocs
    /\ nodes = Registry(conf, RunRoles, FALSE)
    /\ nodes_order = Order(FALSE, 0)
    /\ pc = "run"
    /\ ops = 0
    /\ last_op = NoOp
    /\ prev_nodes = nodes
    /\ resolved = DOMAIN nodes
    /\ pass_grants = {}
    /\ granted = {}
    /\ nodes_json = <<>>
    /\ filters = <<>>
    /\ filtered_nodes = <<>>
    /\ raised = ""
    /\ lock = 0
    /\ cpc = [c \in Callers |-> "called"]
    /\ fake \in FakeArgs
    /\ run_items = [c \in Callers |-> <<>>]
    /\ unit_done = [c \in Callers |-> {}]
    /\ result = [c \in Callers |-> <<>>]
    /\ fs = [dirs |-> {}, files |-> <<>>]
    /\ logger = {}
    /\ calls = [c \in Callers |-> <<>>]

\* The decorator lets the call in
Acquire(c) ==
    /\ cpc[c] = "called"
    /\ run_commands_entry(lock)
    /\ lock' = c
    /\ cpc' = [cpc EXCEPT ![c] = "build"]
    /\ UNCHANGED <<fake, run_items, unit_done, result, fs, logger, calls>>
    /\ UNCHANGED <<conf_vars, filter_vars>>

\* The decorator turns the call away; a call that waits takes no step
Reject(c) ==
    /\ cpc[c] = "called"
    /\ ~run_commands_entry(lock)
    /\ cpc' = [cpc EXCEPT ![c] = "rejected"]
    /\ UNCHANGED <<lock, fake, run_items, unit_done, result, fs, logger, calls>>
    /\ UNCHANGED <<conf_vars, filter_vars>>

\* run_commands (nodes.py:561-565): one RunItem per node
BuildItems(c) ==
    /\ cpc[c] = "build"
    /\ run_items' = [run_items EXCEPT ![c] = nodes_order]
    /\ unit_done' = [unit_done EXCEPT ![c] = {}]
    /\ result' = [result EXCEPT ![c] = <<>>]
    /\ cpc' = [cpc EXCEPT ![c] = "batch"]
    /\ UNCHANGED <<lock, fake, fs, logger, calls>>
    /\ UNCHANGED <<conf_vars, filter_vars>>

\* utils.run_batch runs the unit of key: node.exec_cmd(fake=fake)
ExecCmd(c, key) ==
    /\ cpc[c] = "batch"
    /\ key \in Range(run_items[c]) \ unit_done[c]
    /\ \E outcomes \in [1..(IF fake[c] THEN 0 ELSE Len(all_calls(nodes[key])))
                           -> Outcomes] :
          LET r == exec_cmd(nodes[key], fake[c], <<>>, fs, outcomes)
          IN  /\ nodes' = [nodes EXCEPT ![key] = r.self]
              /\ fs' = r.out.fs
              /\ logger' = logger \cup r.out.logger
              /\ calls' = [calls EXCEPT ![c] = (key :> r.out.calls) @@ @]
              /\ result' = IF r.out.raised THEN result
                           ELSE [result EXCEPT ![c] =
                                    (key :> <<r.out.maps.cmds, r.out.maps.scripts>>) @@ @]
    /\ unit_done' = [unit_done EXCEPT ![c] = @ \cup {key}]
    /\ UNCHANGED <<lock, cpc, fake, run_items>>
    /\ UNCHANGED <<conf, nodes_order, pc, ops, last_op, prev_nodes, resolved,
                   pass_grants, granted>>
    /\ UNCHANGED filter_vars

\* run_commands (nodes.py:566-569): the results are written back
WriteBack(c) ==
    /\ cpc[c] = "batch"
    /\ unit_done[c] = Range(run_items[c])
    /\ nodes' = [key \in DOMAIN nodes |->
                    IF key \in DOMAIN result[c]
                    THEN setattr(setattr(nodes[key], "mapcmds", result[c][key][1]),
                                 "mapscr", result[c][key][2])
                    ELSE nodes[key]]
    /\ cpc' = [cpc EXCEPT ![c] = "written"]
    /\ UNCHANGED <<lock, fake, run_items, unit_done, result, fs, logger, calls>>
    /\ UNCHANGED <<conf, nodes_order, pc, ops, last_op, prev_nodes, resolved,
                   pass_grants, granted>>
    /\ UNCHANGED filter_vars

\* run_commands returns and the decorator gives the lock up
Release(c) ==
    /\ cpc[c] = "written"
    /\ lock' = 0
    /\ cpc' = [cpc EXCEPT ![c] = "done"]
    /\ UNCHANGED <<fake, run_items, unit_done, result, fs, logger, calls>>
    /\ UNCHANGED <<conf_vars, filter_vars>>

NextRun ==
    \E c \in Callers :
        \/ Acquire(c)
        \/ Reject(c)
        \/ BuildItems(c)
        \/ \E key \in DOMAIN nodes : ExecCmd(c, key)
        \/ WriteBack(c)
        \/ Release(c)

SpecRun == InitRun /\ [][NextRun]_vars

Running == {"build", "batch", "written"}

(***************************************************************************)
(* C7: at most one call of run_commands is in flight at any time: a call   *)
(* made while another is running is turned away or waits, so the calls     *)
(* that build work units, execute nodes or write result maps are never two.*)
(***************************************************************************)
C7_RunExclusive ==
    /\ \A c1, c2 \in Callers :
          (cpc[c1] \in Running /\ cpc[c2] \in Running) => c1 = c2
    /\ \A c \in Callers : cpc[c] \in Running => lock = c

\* a call is turned away while another is half-way through its units
C7_Witness ==
    \E c1, c2 \in Callers :
        /\ cpc[c1] = "batch"
        /\ unit_done[c1] # {}
        /\ unit_done[c1] # Range(run_items[c1])
        /\ cpc[c2] = "rejected"

\* The call c has had its results written back and still holds the lock
Collected(c) == cpc[c] = "written"

\* The maps a dry run computes for the node: label -> output path
DryMaps(self) == exec_cmd(self, TRUE, <<>>, fs, <<>>).out.maps

CmdLabels(self) ==
    UNION { {e[i][1] : i \in 1..Len(e)} : e \in Range(getattr(self, ckey)) }

ScriptNames(self) == {e[1] : e \in Range(getattr(self, skey))}

BadCode(call) == call.code # 0

BadWrite(call) == call.write # "ok"

(***************************************************************************)
(* C8: a remote call that returns an exit code outside the accepted codes, *)
(* or an output file that cannot be written, only adds a log record: the   *)
(* label still gets its entry in the node's result map, the node's other   *)
(* commands and scripts are still executed, and every other node's unit    *)
(* runs to completion and has its result maps written back.                *)
(***************************************************************************)
C8_FailureIsolated ==
    \A c \in Callers :
        (Collected(c) /\ ~fake[c]) =>
            \A ip \in DOMAIN nodes :
                LET expected == all_calls(nodes[ip])
                    made == calls[c][ip]
                IN  /\ ip \in DOMAIN calls[c]
                    /\ Len(made) = Len(expected)
                    /\ \A i \in 1..Len(made) :
                          /\ made[i].kind = expected[i].kind
                          /\ made[i].label = expected[i].label
                          /\ made[i].label \in
                                 DOMAIN getattr(nodes[ip], IF made[i].kind = ckey
                                                           THEN "mapcmds" ELSE "mapscr")
                          /\ BadCode(made[i]) =>
                                 \E r \in logger : /\ r.level = "warning"
                                                   /\ r.ip = ip
                                                   /\ r.label = made[i].label
                          /\ BadWrite(made[i]) =>
                                 \E r \in logger : /\ r.level = "error"
                                                   /\ r.ip = ip
                                                   /\ r.label = made[i].label
                    /\ getattr(nodes[ip], "mapcmds") = DryMaps(nodes[ip]).cmds
                    /\ getattr(nodes[ip], "mapscr") = DryMaps(nodes[ip]).scripts

\* the first call of one node fails in both ways, the node has a second call,
\* and another node has its maps written back
C8_Witness ==
    \E c \in Callers :
        /\ Collected(c)
        /\ ~fake[c]
        /\ \E ip1, ip2 \in DOMAIN nodes :
              /\ ip1 # ip2
              /\ Len(calls[c][ip1]) = 2
              /\ BadCode(calls[c][ip1][1])
              /\ BadWrite(calls[c][ip1][1])
              /\ getattr(nodes[ip1], "mapcmds") # <<>>
              /\ getattr(nodes[ip2], "mapcmds") # <<>>

(***************************************************************************)
(* C9: when run_commands completes, every node of the registry has a       *)
(* command map with exactly one entry per command label resolved for it    *)
(* and a script map with exactly one entry per resolved script, each       *)
(* mapping to the output path computed for that node; the maps are the     *)
(* ones the node's own unit produced; and unless the run was a dry run,    *)
(* the file at each path holds the stdout the transport returned for that  *)
(* call (here: for every call whose write succeeded).                      *)
(***************************************************************************)
C9_ResultMaps ==
    \A c \in Callers :
        Collected(c) =>
            \A ip \in DOMAIN nodes :
                LET self == nodes[ip]
                    mapcmds == getattr(self, "mapcmds")
                    mapscr == getattr(self, "mapscr")
                IN  /\ DOMAIN mapcmds = CmdLabels(self)
                    /\ DOMAIN mapscr = ScriptNames(self)
                    /\ \A l \in DOMAIN mapcmds : mapcmds[l] = outfile(self, l)
                    /\ \A n \in DOMAIN mapscr :
                          mapscr[n] = outfile(self, basename(script_file(n)))
                    /\ <<mapcmds, mapscr>> = result[c][ip]
                    /\ ~fake[c] =>
                          \A i \in 1..Len(calls[c][ip]) :
                              LET call == calls[c][ip][i]
                              IN  ~BadWrite(call) =>
                                      /\ call.dfile \in DOMAIN fs.files
                                      /\ fs.files[call.dfile] = encode_utf8[call.outs]

(***************************************************************************)
(* C10: within one run, every command entry and every script entry a node  *)
(* executed is written to its own output path: no two executed actions of  *)
(* the node share a path, and the node has as many output paths as it      *)
(* executed commands and scripts.                                          *)
(***************************************************************************)
C10_OneFilePerAction ==
    \A c \in Callers :
        (Collected(c) /\ ~fake[c]) =>
            \A ip \in DOMAIN nodes :
                LET made == calls[c][ip]
                IN  /\ \A i, j \in 1..Len(made) :
                          made[i].dfile = made[j].dfile => i = j
                    /\ Cardinality({made[i].dfile : i \in 1..Len(made)})
                           = Len(made)

(***************************************************************************)
(* C11: within one resolution pass, with clean true or false, the first    *)
(* contribution to one of the six list attributes replaces the value the   *)
(* host had before the pass and every later one appends, so the attribute  *)
(* ends as the concatenation of the pass's contributions to it, in the     *)
(* order they were applied.  Documents with a by_id section, whose entries *)
(* replace by design, are left out.                                        *)
(***************************************************************************)
\* The contributions of the history h to attribute a, concatenated in order
RECURSIVE Contributed(_, _, _)
Contributed(h, a, i) ==
    IF i > Len(h) THEN <<>>
    ELSE (IF h[i][1] = a THEN h[i][2] ELSE <<>>) \o Contributed(h, a, i + 1)

\* self is what the pass st left, as far as the pass contributed to it
PassConcatenates(self, st) ==
    \A a \in conf_appendable :
        (\E i \in 1..Len(st.h) : st.h[i][1] = a)
            => /\ hasattr(self, a)
               /\ getattr(self, a) = Contributed(st.h, a, 1)

\* The hosts the last once pass applied exactly one payload to
GrantedOnce == {ip \in DOMAIN nodes :
                   Cardinality({g \in pass_grants : g[3] = ip}) = 1}

GrantOf(ip) == CHOOSE g \in pass_grants : g[3] = ip

\* The payload of the once rule g: self.conf[k][ak]
Payload(g) == Get(Get(conf, g[1]), g[2])

CleanPassConcatenates ==
    /\ last_op.name = "apply_conf" =>
          PassConcatenates(nodes[last_op.ip],
                           resolve(prev_nodes[last_op.ip], conf, TRUE))
    /\ last_op.name = "nodes_reapply_conf" =>
          \A ip \in DOMAIN nodes :
              PassConcatenates(nodes[ip], resolve(prev_nodes[ip], conf, TRUE))

AccumulatingPassConcatenates ==
    last_op.name = "_conf_assign_once" =>
        \A ip \in GrantedOnce :
            PassConcatenates(nodes[ip],
                             resolve(prev_nodes[ip], Payload(GrantOf(ip)), FALSE))

C11_ContributionSemantics ==
    ~Has(conf, conf_priority_section) =>
        /\ CleanPassConcatenates
        /\ AccumulatingPassConcatenates

(***************************************************************************)
(* C12: when a host matches at least one branch of a by_<attr> key, the    *)
(* '__default' entry declared next to the branches, inside the mapping of  *)
(* that key, contributes its values to the host, ahead of the matched      *)
(* branch's own sub-document; a host that matches no branch receives       *)
(* nothing from it.  Stated for the top-level match keys of documents      *)
(* without a by_id section.                                                *)
(***************************************************************************)
\* The top-level by_<attr> keys of doc whose mapping declares a default
DefaultingKeys(doc) ==
    {k \in Keys(match_keys(doc)) : conf_default_key \in DOMAIN Get(doc, k)}

\* self matches a branch of the section sec of key k
MatchesBranch(self, k, sec) ==
    /\ hasattr(self, MatchKeyAttr[k])
    /\ \E v \in Range(match_attr(self, MatchKeyAttr[k])) :
          v \in DOMAIN sec \ {conf_default_key}

\* every list entry of d_conf is in the list of the same name of self
Received(self, d_conf) ==
    \A a \in Keys(d_conf) \cap conf_appendable :
        /\ hasattr(self, a)
        /\ Range(Get(d_conf, a)) \subseteq Range(getattr(self, a))

C12_SectionDefaultApplies ==
    ~Has(conf, conf_priority_section) =>
        \A ip \in resolved : \A k \in DefaultingKeys(conf) :
            LET sec == Get(conf, k)
            IN  MatchesBranch(nodes[ip], k, sec)
                    => Received(nodes[ip], sec[conf_default_key])

(***************************************************************************)
(* C13: when the once pass applies a rule's payload to the winning host    *)
(* (apply_conf with clean=False), every entry the host had in each of its  *)
(* six list attributes is still there afterwards, in the same order, with  *)
(* the payload's entries added after them: nothing is cleared or           *)
(* overwritten.                                                            *)
(***************************************************************************)
\* The list a of d_conf, empty when d_conf does not contribute to a
Entries(d_conf, a) == IF Has(d_conf, a) THEN Get(d_conf, a) ELSE <<>>

Accumulated(before, after, d_conf) ==
    \A a \in conf_appendable \cap DOMAIN before :
        /\ hasattr(after, a)
        /\ getattr(after, a) = getattr(before, a) \o Entries(d_conf, a)

C13_OnceAccumulates ==
    last_op.name = "_conf_assign_once" =>
        \A ip \in GrantedOnce :
            Accumulated(prev_nodes[ip], nodes[ip], Payload(GrantOf(ip)))

(***************************************************************************)
(* C14: the online narrowing is part of the filter result: every record    *)
(* filter_nodes returns has a true online flag, so a record that is        *)
(* offline never survives filtering and never becomes a Node.              *)
(***************************************************************************)
C14_OnlineOnly ==
    Filtered =>
        /\ \A i \in 1..Len(filtered_nodes) :
              node_get(filtered_nodes[i], "online") = TRUE
        /\ pc = "built" =>
              \A ip \in DOMAIN nodes : getattr(nodes[ip], "online") = TRUE

(***************************************************************************)
(* C15: for an inventory whose records have pairwise distinct ids, after   *)
(* the build step the registry holds one distinct Node for every record    *)
(* that survived filtering, and the fuel node as well when check_master is *)
(* set: no surviving record and no fuel node is lost.                      *)
(***************************************************************************)
DistinctIds(records) ==
    \A i, j \in 1..Len(records) :
        records[i]["id"] = records[j]["id"] => i = j

C15_OneNodePerRecord ==
    (pc = "built" /\ DistinctIds(nodes_json)) =>
        /\ \A i \in 1..Len(filtered_nodes) :
              \E ip \in DOMAIN nodes :
                  getattr(nodes[ip], "id") = filtered_nodes[i]["id"]
        /\ check_master(filters) =>
              \E ip \in DOMAIN nodes : getattr(nodes[ip], "id") = 0
        /\ Cardinality(DOMAIN nodes)
               = Len(filtered_nodes) + (IF check_master(filters) THEN 1 ELSE 0)

(***************************************************************************)
(* C16: when nodes_reapply_conf is called after the once pass, every       *)
(* host's cmds, scripts, files and filelists afterwards are what resolving *)
(* the shared document alone yields for that host: the entries a host got  *)
(* from a once rule are gone, and the re-application grants none again.    *)
(***************************************************************************)
\* self with the lists Node.__init__ creates empty again
Bare(self) ==
    [a \in DOMAIN self |->
        IF a \in {ckey, skey, fkey, flkey, pkey} THEN <<>> ELSE self[a]]

\* nodes_reapply_conf has just run, after the constructor's once pass
ReappliedAfterOnce == last_op.name = "nodes_reapply_conf" /\ ops >= 1

\* No entry the once rules granted to the host at ip is in its four lists
GrantsGone(ip) ==
    \A g \in {h \in granted : h[3] = ip} : \A a \in conf_keep_default :
        Range(Entries(Payload(g), a)) \cap Range(getattr(nodes[ip], a)) = {}

C16_ReapplyDiscardsGrants ==
    ReappliedAfterOnce =>
        \A ip \in DOMAIN nodes :
            /\ Four(nodes[ip]) = Four(apply_conf(Bare(prev_nodes[ip]), conf, TRUE))
            /\ GrantsGone(ip)

\* a host that held a once rule's command, next to commands of the shared
\* document, has been resolved again
C16_Witness ==
    /\ ReappliedAfterOnce
    /\ \E g \in granted :
          /\ Range(Entries(Payload(g), ckey))
                 \subseteq Range(getattr(prev_nodes[g[3]], ckey))
          /\ Len(getattr(prev_nodes[g[3]], ckey)) >= 2
          /\ getattr(nodes[g[3]], ckey) # <<>>

====
